---- MODULE Spec2Model ----
(***************************************************************************)
(* pre-commit-bump: the version parser, the version comparator, the bump   *)
(* policy, the latest-version selector, the decision engine and the runs    *)
(* of the check and update commands.                                        *)
(*                                                                          *)
(* Go strings are TLA+ strings; a character is a string of length one.     *)
(* A *SemanticVersion is either Nil or a record with the struct's five     *)
(* fields.  A Go call either returns a value, Returns(v), or panics on a   *)
(* nil pointer dereference, NilDereference.                                 *)
(***************************************************************************)
EXTENDS Integers, Sequences, FiniteSets, TLC

VARIABLES
    fn,     \* the function applied last ("idle" before the first call)
    args,   \* the arguments it was applied to
    ret,    \* its outcome: Returns(value) or NilDereference
    command,        \* the command that runs: "check" or "update"
    cfg,            \* its config.Config: Allow, DryRun, NoSummary
    client,         \* what the HTTP client gets from the tag host, per repository URL
    files,          \* the configuration file (config) and summary.md (summary)
    pc,             \* where Check / Update is
    repos,          \* the argument of checkReposForUpdates
    repoIndex,      \* the index of its loop
    updateResults,  \* its results slice
    goroutines,     \* the goroutines it started, with the arguments of the go statement
    waitGroup,      \* the counter of its sync.WaitGroup
    slotWrites,     \* history: the stores into updateResults, in order
    writeFileCalls, \* history: the WriteFile calls, in order
    err             \* the error Check / Update returned (when pc = "done")

callVars == <<fn, args, ret>>

runVars == <<command, cfg, client, files, pc, repos, repoIndex, updateResults,
             goroutines, waitGroup, slotWrites, writeFileCalls, err>>

vars == <<fn, args, ret, command, cfg, client, files, pc, repos, repoIndex,
          updateResults, goroutines, waitGroup, slotWrites, writeFileCalls, err>>

(***************************************************************************)
(* Bounds of the model                                                      *)
(***************************************************************************)
MaxNum == 2     \* major, minor and patch of the inputs range over 0..MaxNum
MaxTags == 3    \* findLatestVersion is applied to tag lists of length 0..MaxTags
MaxRepos == 2   \* a configuration file holds 0..MaxRepos repositories

(***************************************************************************)
(* Values                                                                   *)
(***************************************************************************)
Nil == [nil |-> TRUE]

Returns(v) == [panic |-> FALSE, val |-> v]

NilDereference == [panic |-> TRUE]

SemanticVersion(major, minor, patch, preRelease, buildMetaData) ==
    [Major |-> major, Minor |-> minor, Patch |-> patch,
     PreRelease |-> preRelease, BuildMetaData |-> buildMetaData]

\* config.ReSemanticVersion, matched the way Go's regexp package matches it:
\* unanchored, leftmost start first, and at one start the first match a
\* backtracking search finds (alternatives in order, repetitions greedy).
\*   (?P<major>0|[1-9]\d*)\.(?P<minor>0|[1-9]\d*)\.(?P<patch>0|[1-9]\d*)
\*   (?:-(?P<prerelease>ID(?:\.ID)*))?
\*   (?:\+(?P<buildmetadata>[0-9a-zA-Z-]+(?:\.[0-9a-zA-Z-]+)*))?
\* with ID = 0|[1-9]\d*|\d*[a-zA-Z-][0-9a-zA-Z-]*
DigitChars == "0123456789"

LetterChars == "abcdefghijklmnopqrstuvwxyzABCDEFGHIJKLMNOPQRSTUVWXYZ"

CharsOf(str) == {SubSeq(str, i, i) : i \in 1..Len(str)}

Digits == CharsOf(DigitChars)                       \* \d

NonZeroDigits == Digits \ {"0"}                     \* [1-9]

LettersOrHyphen == CharsOf(LetterChars) \cup {"-"}  \* [a-zA-Z-]

IdentChars == Digits \cup LettersOrHyphen           \* [0-9a-zA-Z-]

\* the character of str at position i (1-based), "" outside the string
Char(str, i) == IF i >= 1 /\ i <= Len(str) THEN SubSeq(str, i, i) ELSE ""

\* e evaluated once and handed to F (Go evaluates an expression when it
\* assigns it to a local variable)
Let(e, F(_)) == CHOOSE r \in {F(x) : x \in {e}} : TRUE

\* a greedy class* from position i: the first position whose character is
\* not in class
RECURSIVE SkipWhile(_, _, _)
SkipWhile(str, i, class) ==
    IF Char(str, i) \in class THEN SkipWhile(str, i + 1, class) ELSE i

\* 0|[1-9]\d* at position i: the position after the match, 0 when it fails.
\* What follows is either a literal "." or optional, so the first
\* alternative that matches and the longest digit run are what the search
\* keeps.
MatchNumber(str, i) ==
    IF Char(str, i) = "0" THEN i + 1
    ELSE IF Char(str, i) \in NonZeroDigits THEN SkipWhile(str, i + 1, Digits)
    ELSE 0

\* one pre-release identifier 0|[1-9]\d*|\d*[a-zA-Z-][0-9a-zA-Z-]* at i.
\* Everything after an identifier is optional, so the first alternative
\* that matches at i is never backtracked: "0" alone, then a digit run,
\* and only when i holds no digit the alphanumeric alternative.
MatchPreReleaseIdent(str, i) ==
    IF Char(str, i) = "0" THEN i + 1
    ELSE IF Char(str, i) \in NonZeroDigits THEN SkipWhile(str, i + 1, Digits)
    ELSE IF Char(str, i) \in LettersOrHyphen THEN SkipWhile(str, i + 1, IdentChars)
    ELSE 0

\* one build identifier [0-9a-zA-Z-]+ at i
MatchBuildIdent(str, i) ==
    IF Char(str, i) \in IdentChars THEN SkipWhile(str, i + 1, IdentChars) ELSE 0

MatchIdent(str, i, group) ==
    IF group = "prerelease" THEN MatchPreReleaseIdent(str, i)
    ELSE MatchBuildIdent(str, i)

\* (?:\.ID)* from position e, greedy: the position after the last iteration
RECURSIVE MatchMoreIdents(_, _, _)
MatchMoreIdents(str, e, group) ==
    IF Char(str, e) # "." THEN e
    ELSE Let(MatchIdent(str, e + 1, group),
             LAMBDA n : IF n # 0 THEN MatchMoreIdents(str, n, group) ELSE e)

\* the optional group (?:<marker>(?P<group>ID(?:\.ID)*))? at position p:
\* the position after it, p itself when the group does not take part
MatchOptional(str, p, marker, group) ==
    IF Char(str, p) # marker THEN p
    ELSE Let(MatchIdent(str, p + 1, group),
             LAMBDA n : IF n # 0 THEN MatchMoreIdents(str, n, group) ELSE p)

\* Go's []string of submatches for a match that starts at i, with the
\* numbers ending before e1, e2 and e3, the pre-release group before p and
\* the build group before b: <<whole, major, minor, patch, prerelease,
\* buildmetadata>>, a group that took no part being ""
Submatches(str, i, e1, e2, e3, p, b) ==
    << SubSeq(str, i, b - 1),
       SubSeq(str, i, e1 - 1),
       SubSeq(str, e1 + 1, e2 - 1),
       SubSeq(str, e2 + 1, e3 - 1),
       IF p = e3 THEN "" ELSE SubSeq(str, e3 + 1, p - 1),
       IF b = p THEN "" ELSE SubSeq(str, p + 1, b - 1) >>

\* the expression matched at start i: its submatches, or <<>> (nil) when
\* there is no match at i
MatchAt(str, i) ==
    Let(MatchNumber(str, i), LAMBDA e1 :
    Let(IF e1 # 0 /\ Char(str, e1) = "." THEN MatchNumber(str, e1 + 1) ELSE 0, LAMBDA e2 :
    Let(IF e2 # 0 /\ Char(str, e2) = "." THEN MatchNumber(str, e2 + 1) ELSE 0, LAMBDA e3 :
        IF e3 = 0 THEN <<>>
        ELSE Let(MatchOptional(str, e3, "-", "prerelease"), LAMBDA p :
             Let(MatchOptional(str, p, "+", "buildmetadata"), LAMBDA b :
                 Submatches(str, i, e1, e2, e3, p, b))))))

\* a search that tries the start of the string only
FindStringSubmatch_AtStartOnly(str) ==
    MatchAt(str, 1)

\* regexp.FindStringSubmatch: the match at the leftmost start that has
\* one, <<>> (nil) when no start has
FindStringSubmatch(str) ==
    Let({i \in 1..Len(str) : MatchAt(str, i) # <<>>}, LAMBDA starts :
        IF starts = {} THEN <<>>
        ELSE MatchAt(str, CHOOSE i \in starts : \A j \in starts : i <= j))

\* regexp.SubexpIndex: the 0-based index of a named group, -1 when unknown
SubexpIndex(name) ==
    CASE name = "major" -> 1
      [] name = "minor" -> 2
      [] name = "patch" -> 3
      [] name = "prerelease" -> 4
      [] name = "buildmetadata" -> 5
      [] OTHER -> -1

GetGroup(match, name) ==
    LET index == SubexpIndex(name)
    IN  IF index = -1 \/ index >= Len(match) THEN "" ELSE match[index + 1]

(***************************************************************************)
(* strconv.Atoi on a digit string                                           *)
(***************************************************************************)
IntMaxDecimal == "9223372036854775807"

DigitValue(c) == (CHOOSE n \in 1..10 : Char(DigitChars, n) = c) - 1

\* whether the digits of d from position k on are greater than those of m,
\* for d and m of the same length
RECURSIVE DecimalGreaterFrom(_, _, _)
DecimalGreaterFrom(d, m, k) ==
    IF k > Len(d) THEN FALSE
    ELSE \/ DigitValue(Char(d, k)) > DigitValue(Char(m, k))
         \/ /\ Char(d, k) = Char(m, k)
            /\ DecimalGreaterFrom(d, m, k + 1)

\* Atoi fails on an empty string, on a character that is no digit, and on
\* a value outside the 64-bit int range
AtoiErr(d) ==
    \/ d = ""
    \/ \E i \in 1..Len(d) : Char(d, i) \notin Digits
    \/ Len(d) > Len(IntMaxDecimal)
    \/ Len(d) = Len(IntMaxDecimal) /\ DecimalGreaterFrom(d, IntMaxDecimal, 1)

\* the value of the first n digits of d
RECURSIVE AtoiUpTo(_, _)
AtoiUpTo(d, n) ==
    IF n = 0 THEN 0 ELSE AtoiUpTo(d, n - 1) * 10 + DigitValue(Char(d, n))

Atoi(d) == AtoiUpTo(d, Len(d))

\* GetSemanticVersion: (&SemanticVersion{}, false) when the string holds no
\* match or a number does not convert, else the parsed version and true
GetSemanticVersion(version) ==
    Let(FindStringSubmatch(version), LAMBDA match :
        IF match = <<>> THEN [semVer |-> SemanticVersion(0, 0, 0, "", ""), ok |-> FALSE]
        ELSE IF \/ AtoiErr(GetGroup(match, "major"))
                \/ AtoiErr(GetGroup(match, "minor"))
                \/ AtoiErr(GetGroup(match, "patch"))
             THEN [semVer |-> SemanticVersion(0, 0, 0, "", ""), ok |-> FALSE]
        ELSE [semVer |-> SemanticVersion(Atoi(GetGroup(match, "major")),
                                         Atoi(GetGroup(match, "minor")),
                                         Atoi(GetGroup(match, "patch")),
                                         GetGroup(match, "prerelease"),
                                         GetGroup(match, "buildmetadata")),
              ok |-> TRUE])

(***************************************************************************)
(* Version comparator and bump policy (methods of *SemanticVersion; s is   *)
(* the receiver, the candidate, and other the baseline)                     *)
(***************************************************************************)
\* IsNewerVersionThan with the minor comparison not tied to equal majors
IsNewerVersionThan_MinorAlone(s, other) ==
    IF s = Nil \/ other = Nil THEN Returns(FALSE)
    ELSE IF s.Major > other.Major THEN Returns(TRUE)
    ELSE IF s.Minor > other.Minor THEN Returns(TRUE)
    ELSE IF s.Major = other.Major /\ s.Minor = other.Minor /\ s.Patch > other.Patch
         THEN Returns(TRUE)
    ELSE Returns(FALSE)

\* IsNewerVersionThan with >= in the patch comparison
IsNewerVersionThan_OrEqual(s, other) ==
    IF s = Nil \/ other = Nil THEN Returns(FALSE)
    ELSE IF s.Major > other.Major THEN Returns(TRUE)
    ELSE IF s.Major = other.Major /\ s.Minor > other.Minor THEN Returns(TRUE)
    ELSE IF s.Major = other.Major /\ s.Minor = other.Minor /\ s.Patch >= other.Patch
         THEN Returns(TRUE)
    ELSE Returns(FALSE)

IsNewerVersionThan(s, other) ==
    IF s = Nil \/ other = Nil THEN Returns(FALSE)
    ELSE IF s.Major > other.Major THEN Returns(TRUE)
    ELSE IF s.Major = other.Major /\ s.Minor > other.Minor THEN Returns(TRUE)
    ELSE IF s.Major = other.Major /\ s.Minor = other.Minor /\ s.Patch > other.Patch
         THEN Returns(TRUE)
    ELSE Returns(FALSE)

\* GetBumpType with the patch comparison not tied to equal minors
GetBumpType_PatchAlone(s, other) ==
    IF other = Nil THEN Returns("")
    ELSE IF s = Nil THEN NilDereference
    ELSE IF s.Major > other.Major THEN Returns("major")
    ELSE IF s.Major = other.Major /\ s.Minor > other.Minor THEN Returns("minor")
    ELSE IF s.Major = other.Major /\ s.Patch > other.Patch THEN Returns("patch")
    ELSE Returns("")

\* GetBumpType tests only other against nil; with a nil receiver and a
\* baseline that is present, reading s.Major dereferences nil
GetBumpType(s, other) ==
    IF other = Nil THEN Returns("")
    ELSE IF s = Nil THEN NilDereference
    ELSE IF s.Major > other.Major THEN Returns("major")
    ELSE IF s.Major = other.Major /\ s.Minor > other.Minor THEN Returns("minor")
    ELSE IF s.Major = other.Major /\ s.Minor = other.Minor /\ s.Patch > other.Patch
         THEN Returns("patch")
    ELSE Returns("")

\* the switch of IsAllowedBumpFrom with one permitted set changed:
\* which is "patchTooWide" (ceiling patch also permits minor),
\* "minorNotMajor" (ceiling minor permits whatever is not major) or
\* "failOpen" (an unknown ceiling permits everything)
AllowedSwitch_Changed(bumpType, allowedBumpType, which) ==
    CASE allowedBumpType = "major" ->
           Returns(bumpType = "major" \/ bumpType = "minor" \/ bumpType = "patch")
      [] allowedBumpType = "minor" ->
           Returns(IF which = "minorNotMajor" THEN bumpType # "major"
                   ELSE bumpType = "minor" \/ bumpType = "patch")
      [] allowedBumpType = "patch" ->
           Returns(IF which = "patchTooWide"
                   THEN bumpType = "patch" \/ bumpType = "minor"
                   ELSE bumpType = "patch")
      [] OTHER -> Returns(which = "failOpen")

IsAllowedBumpFrom_Changed(s, other, allowedBumpType, which) ==
    IF other = Nil \/ s = Nil THEN Returns(FALSE)
    ELSE LET called == GetBumpType(s, other)
         IN  IF called.panic THEN called
             ELSE AllowedSwitch_Changed(called.val, allowedBumpType, which)

IsAllowedBumpFrom_PatchTooWide(s, other, allowedBumpType) ==
    IsAllowedBumpFrom_Changed(s, other, allowedBumpType, "patchTooWide")

IsAllowedBumpFrom_MinorNotMajor(s, other, allowedBumpType) ==
    IsAllowedBumpFrom_Changed(s, other, allowedBumpType, "minorNotMajor")

IsAllowedBumpFrom_FailOpen(s, other, allowedBumpType) ==
    IsAllowedBumpFrom_Changed(s, other, allowedBumpType, "failOpen")

\* IsAllowedBumpFrom as it was before the nil checks: ceiling major
\* permits everything, without looking at the versions
IsAllowedBumpFrom_MajorFirst(s, other, allowedBumpType) ==
    IF allowedBumpType = "major" THEN Returns(TRUE)
    ELSE LET called == GetBumpType(s, other)
         IN  IF called.panic THEN called
             ELSE AllowedSwitch_Changed(called.val, allowedBumpType, "none")

IsAllowedBumpFrom(s, other, allowedBumpType) ==
    IF other = Nil \/ s = Nil THEN Returns(FALSE)
    ELSE LET called == GetBumpType(s, other)
         IN  IF called.panic THEN called
             ELSE LET bumpType == called.val
                  IN  CASE allowedBumpType = "major" ->
                             Returns(bumpType = "major" \/ bumpType = "minor"
                                     \/ bumpType = "patch")
                        [] allowedBumpType = "minor" ->
                             Returns(bumpType = "minor" \/ bumpType = "patch")
                        [] allowedBumpType = "patch" ->
                             Returns(bumpType = "patch")
                        [] OTHER -> Returns(FALSE)

(***************************************************************************)
(* Latest-version selector                                                  *)
(***************************************************************************)
TagsPrefix == "refs/tags/"

\* strings.TrimPrefix
TrimPrefix(str, prefix) ==
    IF Len(str) >= Len(prefix) /\ SubSeq(str, 1, Len(prefix)) = prefix
    THEN SubSeq(str, Len(prefix) + 1, Len(str))
    ELSE str

\* TagProvider.GetTagName: a GitHubTag strips "refs/tags/" from its Ref, a
\* GitLabTag returns its Ref (the tag's name) as it is
GetTagName(tag) ==
    IF tag.kind = "github" THEN TrimPrefix(tag.Ref, TagsPrefix) ELSE tag.Ref

\* the loop of findLatestVersion from tag i on: the value of latest after
\* the last tag, or NilDereference when a comparison panics
RECURSIVE findLatestLoop(_, _, _)
findLatestLoop(tags, i, latest) ==
    IF i > Len(tags) THEN latest
    ELSE Let(GetSemanticVersion(GetTagName(tags[i])), LAMBDA parsed :
             IF ~parsed.ok THEN findLatestLoop(tags, i + 1, latest)
             ELSE IF latest = Nil THEN findLatestLoop(tags, i + 1, parsed.semVer)
             ELSE Let(IsNewerVersionThan(parsed.semVer, latest), LAMBDA newer :
                      IF newer.panic THEN NilDereference
                      ELSE IF newer.val THEN findLatestLoop(tags, i + 1, parsed.semVer)
                      ELSE findLatestLoop(tags, i + 1, latest)))

\* the error without the revision
NoTagsError_NoRev(repo) ==
    [msg |-> "no semantic version tags found for repo: " \o repo.Repo]

NoTagsError(repo) ==
    [msg |-> "no semantic version tags found for repo: " \o repo.Repo
             \o " with rev: " \o repo.Rev]

\* findLatestVersion giving up at the first tag that does not parse
RECURSIVE findLatestLoop_Abort(_, _, _)
findLatestLoop_Abort(tags, i, latest) ==
    IF i > Len(tags) THEN latest
    ELSE Let(GetSemanticVersion(GetTagName(tags[i])), LAMBDA parsed :
             IF ~parsed.ok THEN Nil
             ELSE IF latest = Nil \/ IsNewerVersionThan(parsed.semVer, latest).val
                  THEN findLatestLoop_Abort(tags, i + 1, parsed.semVer)
             ELSE findLatestLoop_Abort(tags, i + 1, latest))

findLatestVersion_Abort(tags, repo) ==
    Let(findLatestLoop_Abort(tags, 1, Nil), LAMBDA latest :
        IF latest = Nil
        THEN Returns([version |-> Nil, err |-> NoTagsError(repo)])
        ELSE Returns([version |-> latest, err |-> Nil]))

findLatestVersion(tags, repo) ==
    Let(findLatestLoop(tags, 1, Nil), LAMBDA latest :
        IF latest = NilDereference THEN NilDereference
        ELSE IF latest = Nil
             THEN Returns([version |-> Nil, err |-> NoTagsError(repo)])
        ELSE Returns([version |-> latest, err |-> Nil]))

(***************************************************************************)
(* Decision engine                                                          *)
(***************************************************************************)
\* PopulateSemVer: SemVer is the parsed Rev, nil when Rev is no version
Repo(url, rev) ==
    [Repo |-> url, Rev |-> rev,
     SemVer |-> IF GetSemanticVersion(rev).ok THEN GetSemanticVersion(rev).semVer
                ELSE Nil]

VendorGitHub == "github"

VendorGitLab == "gitlab"

VendorGitHubHost == "github.com"

VendorGitLabHost == "gitlab.com"

\* strings.Contains: sub occurs in str
Contains(str, sub) ==
    \E i \in 1..(Len(str) - Len(sub) + 1) : SubSeq(str, i, i + Len(sub) - 1) = sub

GetVendor(r) ==
    IF Contains(r.Repo, VendorGitHubHost) THEN VendorGitHub
    ELSE IF Contains(r.Repo, VendorGitLabHost) THEN VendorGitLab
    ELSE ""

\* SemanticVersion.String
String(s) ==
    ToString(s.Major) \o "." \o ToString(s.Minor) \o "." \o ToString(s.Patch)
        \o (IF s.PreRelease # "" THEN "-" \o s.PreRelease ELSE "")
        \o (IF s.BuildMetaData # "" THEN "+" \o s.BuildMetaData ELSE "")

\* fmt.Errorf: an error is its message
Errorf(msg) == [msg |-> msg]

UpdateResult(repo, latestVersion, updateRequired, error) ==
    [Repo |-> repo, LatestVersion |-> latestVersion,
     UpdateRequired |-> updateRequired, Error |-> error]

\* what the HTTP client answers to the request for a repository's tags:
\* err is the error of client.Get (Nil when it answered), Body the body:
\* a JSON list of tags with these refs, or something that does not decode
Response(getErr, statusCode, body) ==
    [err |-> getErr, StatusCode |-> statusCode, Body |-> body]

Json(refs) == [decodes |-> TRUE, refs |-> refs]

NotJson == [decodes |-> FALSE, refs |-> <<>>]

StatusOK == 200

\* the vendor's name in the messages of its bumper
VendorName(vendor) == IF vendor = VendorGitHub THEN "GitHub" ELSE "GitLab"

\* fetchTags of the vendor's bumper, given the client's answer
fetchTags(vendor, resp) ==
    IF resp.err # Nil
    THEN [tags |-> <<>>,
          err |-> Errorf("failed to call " \o VendorName(vendor) \o " API: "
                         \o resp.err.msg)]
    ELSE IF resp.StatusCode # StatusOK
    THEN [tags |-> <<>>,
          err |-> Errorf(VendorName(vendor) \o " API returned status "
                         \o ToString(resp.StatusCode))]
    ELSE IF ~resp.Body.decodes
    THEN [tags |-> <<>>,
          err |-> Errorf(IF vendor = VendorGitHub
                         THEN "failed to decode response: invalid JSON"
                         ELSE "failed to decode GitLab API response: invalid JSON")]
    ELSE [tags |-> [i \in 1..Len(resp.Body.refs) |->
                       [kind |-> vendor, Ref |-> resp.Body.refs[i]]],
          err |-> Nil]

\* GetLatestVersion of a bumper that keeps the tags it fetched first and
\* answers with them for every repository
GetLatestVersion_TagsKept(updater, repo) ==
    Let(fetchTags(updater.vendor,
                  updater.client[CHOOSE u \in DOMAIN updater.client : TRUE]),
        LAMBDA fetched :
            IF fetched.err # Nil THEN Returns([version |-> Nil, err |-> fetched.err])
            ELSE findLatestVersion(fetched.tags, repo))

\* RepoBumper.GetLatestVersion of GithubBumper and GitLabBumper; the
\* updater is the vendor's bumper with the answers its client gets, one
\* per repository URL
GetLatestVersion(updater, repo) ==
    Let(fetchTags(updater.vendor, updater.client[repo.Repo]), LAMBDA fetched :
        IF fetched.err # Nil THEN Returns([version |-> Nil, err |-> fetched.err])
        ELSE findLatestVersion(fetched.tags, repo))

\* checkSingleRepo leaving Repo out of the result of a failed lookup
checkSingleRepo_ErrorWithoutRepo(repo, updater, config) ==
    Let(GetLatestVersion(updater, repo), LAMBDA got :
        IF got.panic THEN NilDereference
        ELSE IF got.val.err # Nil
        THEN Returns(UpdateResult(Repo("", ""), Nil, FALSE,
                 Errorf("failed to get latest version for " \o repo.Repo \o ": "
                        \o got.val.err.msg)))
        ELSE Returns(UpdateResult(repo, got.val.version,
                 IsAllowedBumpFrom(got.val.version, repo.SemVer, config.Allow).val, Nil)))

\* checkSingleRepo requiring an update whenever the latest version is
\* newer, whatever the ceiling
checkSingleRepo_NewerIsRequired(repo, updater, config) ==
    Let(GetLatestVersion(updater, repo), LAMBDA got :
        IF got.panic THEN NilDereference
        ELSE IF got.val.err # Nil
        THEN Returns(UpdateResult(repo, Nil, FALSE,
                 Errorf("failed to get latest version for " \o repo.Repo \o ": "
                        \o got.val.err.msg)))
        ELSE Returns(UpdateResult(repo, got.val.version,
                 IsNewerVersionThan(got.val.version, repo.SemVer).val, Nil)))

checkSingleRepo(repo, updater, config) ==
    Let(GetLatestVersion(updater, repo), LAMBDA got :
        IF got.panic THEN NilDereference
        ELSE IF got.val.err # Nil
        THEN Returns(UpdateResult(repo, Nil, FALSE,
                 Errorf("failed to get latest version for " \o repo.Repo \o ": "
                        \o got.val.err.msg)))
        ELSE Let(got.val.version, LAMBDA latestVersion :
             Let(IsAllowedBumpFrom(latestVersion, repo.SemVer, config.Allow),
                 LAMBDA updateRequired :
             Let(IsNewerVersionThan(latestVersion, repo.SemVer), LAMBDA newer :
                 IF updateRequired.panic \/ newer.panic THEN NilDereference
                 ELSE IF newer.val /\ ~updateRequired.val
                         /\ GetBumpType(latestVersion, repo.SemVer).panic
                      THEN NilDereference
                 ELSE Returns(UpdateResult(repo, latestVersion,
                                           updateRequired.val, Nil))))))

(***************************************************************************)
(* Configuration file, result processing and result writer                  *)
(***************************************************************************)
SentinelLocal == "local"

SentinelMeta == "meta"

\* the repos of a configuration file as yaml.Unmarshal yields them: the
\* repo and rev of each entry, SemVer not yet populated
Unmarshal(file) ==
    [i \in 1..Len(file.repos) |->
        [Repo |-> file.repos[i].repo, Rev |-> file.repos[i].rev, SemVer |-> Nil]]

\* PreCommitConfig.Validate: the error of the first offending repository
Validate(c) ==
    IF Len(c.Repos) = 0 THEN Errorf("no repositories found in config")
    ELSE Let({i \in 1..Len(c.Repos) :
                 \/ c.Repos[i].Repo = ""
                 \/ (c.Repos[i].Repo \notin {SentinelLocal, SentinelMeta}
                     /\ c.Repos[i].Rev = "")},
             LAMBDA bad :
                 IF bad = {} THEN Nil
                 ELSE Let(CHOOSE i \in bad : \A j \in bad : i <= j, LAMBDA i :
                          IF c.Repos[i].Repo = ""
                          THEN Errorf("repository URL is empty")
                          ELSE Errorf("revision is empty for repository: "
                                      \o c.Repos[i].Repo)))

PopulateSemVer(c) ==
    [Repos |-> [i \in 1..Len(c.Repos) |-> Repo(c.Repos[i].Repo, c.Repos[i].Rev)]]

\* Parser.ParseConfig: the file is read, unmarshalled, validated and its
\* versions populated
ParseConfig(file) ==
    IF ~file.exists
    THEN [pCfg |-> Nil,
          err |-> Errorf("failed to validate config path: path does not exist")]
    ELSE Let([Repos |-> Unmarshal(file)], LAMBDA c :
         Let(Validate(c), LAMBDA invalid :
             IF invalid # Nil
             THEN [pCfg |-> Nil, err |-> Errorf("validation failed: " \o invalid.msg)]
             ELSE [pCfg |-> PopulateSemVer(c), err |-> Nil]))

ValidRepos(c) ==
    SelectSeq(c.Repos, LAMBDA repo :
        /\ repo.Repo \notin {SentinelMeta, SentinelLocal}
        /\ repo.SemVer # Nil)

ZeroRepo == [Repo |-> "", Rev |-> "", SemVer |-> Nil]

\* the zero value of types.UpdateResult, which make() fills the slice with
ZeroUpdateResult == UpdateResult(ZeroRepo, Nil, FALSE, Nil)

\* the branch of checkReposForUpdates for a vendor without updater
NoUpdaterResult(currentRepo, vendor) ==
    UpdateResult(currentRepo, Nil, FALSE,
                 Errorf("no updater found for vendor: " \o vendor))

\* a goroutine that is handed the first index, whatever the iteration
Go_FixedIndex(index, repo, updater) ==
    [index |-> 1, repo |-> repo, updater |-> updater, state |-> "started"]

\* the go statement of checkReposForUpdates: its arguments are evaluated
\* when the goroutine is started
Go(index, repo, updater) ==
    [index |-> index, repo |-> repo, updater |-> updater, state |-> "started"]

\* checkRepoAsync storing into the first slot that is still empty
checkRepoAsync_FirstFreeSlot(results, index, repo, updater, config) ==
    Let(checkSingleRepo(repo, updater, config), LAMBDA checked :
        IF checked.panic THEN NilDereference
        ELSE Returns([slot |-> CHOOSE i \in 1..Len(results) :
                                  /\ results[i] = ZeroUpdateResult
                                  /\ \A j \in 1..(i - 1) : results[j] # ZeroUpdateResult,
                      value |-> checked.val]))

\* checkRepoAsync: the store results[index] = b.checkSingleRepo(repo, updater)
checkRepoAsync(results, index, repo, updater, config) ==
    Let(checkSingleRepo(repo, updater, config), LAMBDA checked :
        IF checked.panic THEN NilDereference
        ELSE Returns([slot |-> index, value |-> checked.val]))

\* the messages of errs as %v prints the slice
RECURSIVE JoinErrors(_, _)
JoinErrors(errs, i) ==
    IF i > Len(errs) THEN ""
    ELSE (IF i > 1 THEN " " ELSE "") \o errs[i].msg \o JoinErrors(errs, i + 1)

\* processResults reporting updates although a repository errored
processResults_ErrorsIgnored(results) ==
    [hasUpdates |-> \E i \in 1..Len(results) :
                        results[i].Error = Nil /\ results[i].UpdateRequired,
     err |-> Nil]

\* processResults reporting a permitted update before it looks at errors
processResults_UpdatesFirst(results) ==
    IF \E i \in 1..Len(results) : results[i].Error = Nil /\ results[i].UpdateRequired
    THEN [hasUpdates |-> TRUE, err |-> Nil]
    ELSE Let(SelectSeq(results, LAMBDA result : result.Error # Nil), LAMBDA failed :
             IF Len(failed) > 0
             THEN [hasUpdates |-> FALSE,
                   err |-> Errorf("errors occurred while checking repositories: ["
                                  \o JoinErrors([i \in 1..Len(failed) |-> failed[i].Error], 1)
                                  \o "]")]
             ELSE [hasUpdates |-> FALSE, err |-> Nil])

processResults(results) ==
    Let(SelectSeq(results, LAMBDA result : result.Error # Nil), LAMBDA failed :
        IF Len(failed) > 0
        THEN [hasUpdates |-> FALSE,
              err |-> Errorf("errors occurred while checking repositories: ["
                             \o JoinErrors([i \in 1..Len(failed) |-> failed[i].Error], 1)
                             \o "]")]
        ELSE [hasUpdates |-> \E i \in 1..Len(results) : results[i].UpdateRequired,
              err |-> Nil])

\* the outcome of a step that may write files: the error it returns, the
\* files after it and the WriteFile calls it made, in order
Outcome(error, fs, calls) ==
    [panic |-> FALSE, err |-> error, files |-> fs, calls |-> calls]

Panicked(fs, calls) == [panic |-> TRUE, err |-> Nil, files |-> fs, calls |-> calls]

\* FileSystem.WriteFile(name, data): io says which file operations succeed;
\* a write that fails leaves the file as it was
WriteFile(fs, name, data, io) ==
    IF io[name]
    THEN Outcome(Nil, [fs EXCEPT ![name] = data], <<[name |-> name, ok |-> TRUE]>>)
    ELSE Outcome(Errorf("write " \o name \o ": permission denied"), fs,
                 <<[name |-> name, ok |-> FALSE]>>)

\* a summary that counts every newer version as an update
SummaryClass_NewerIsUpdated(result) ==
    IF result.UpdateRequired THEN "updated"
    ELSE IF result.LatestVersion # Nil /\ result.Repo.SemVer # Nil
            /\ IsNewerVersionThan(result.LatestVersion, result.Repo.SemVer).val
         THEN "updated"
    ELSE "upToDate"

\* the class WriteSummary puts a result in
SummaryClass(result) ==
    IF result.UpdateRequired THEN "updated"
    ELSE IF result.LatestVersion # Nil /\ result.Repo.SemVer # Nil
            /\ IsNewerVersionThan(result.LatestVersion, result.Repo.SemVer).val
         THEN "constrained"
    ELSE "upToDate"

SummaryLine(result) ==
    Let(SummaryClass(result), LAMBDA class :
        [class |-> class, repo |-> result.Repo.Repo, rev |-> result.Repo.Rev,
         latest |-> IF class = "upToDate" THEN "" ELSE String(result.LatestVersion)])

\* ResultWriter.WriteSummary: one line per result and the three counters
WriteSummary(fs, results, allowLevel, io) ==
    IF \E i \in 1..Len(results) :
           results[i].UpdateRequired /\ results[i].LatestVersion = Nil
    THEN Panicked(fs, <<>>)
    ELSE Let([i \in 1..Len(results) |-> SummaryLine(results[i])], LAMBDA lines :
             WriteFile(fs, "summary",
                 [exists |-> TRUE, policy |-> allowLevel, lines |-> lines,
                  updatesApplied |->
                      Cardinality({i \in 1..Len(lines) : lines[i].class = "updated"}),
                  upToDate |->
                      Cardinality({i \in 1..Len(lines) : lines[i].class = "upToDate"}),
                  constrainedUpdates |->
                      Cardinality({i \in 1..Len(lines) : lines[i].class = "constrained"})],
                 io))

\* re.ReplaceAllString on the rev of one entry of the file, for the pattern
\*   (repo:\s+URL\s+rev:\s+?[a-zA-Z]?)CURRENT  and the replacement ${1}NEW :
\* the rev is rewritten when it is CURRENT after at most one letter, and
\* what follows CURRENT in the rev stays
ReplaceRev(rev, currentRev, newRev) ==
    Let(IF Len(rev) >= 1 /\ SubSeq(rev, 1, 1) \in CharsOf(LetterChars) THEN 1 ELSE 0,
        LAMBDA letter :
            IF SubSeq(rev, letter + 1, letter + Len(currentRev)) = currentRev
               /\ Len(rev) >= letter + Len(currentRev)
            THEN SubSeq(rev, 1, letter) \o newRev
                     \o SubSeq(rev, letter + Len(currentRev) + 1, Len(rev))
            ELSE rev)

\* the loop of WritePreCommitChanges from result i on
RECURSIVE ReplaceLoop(_, _, _)
ReplaceLoop(content, results, i) ==
    IF i > Len(results) THEN Returns(content)
    ELSE Let(results[i], LAMBDA result :
         IF ~result.UpdateRequired \/ result.Error # Nil
         THEN ReplaceLoop(content, results, i + 1)
         ELSE IF result.Repo.SemVer = Nil \/ result.LatestVersion = Nil
         THEN NilDereference
         ELSE ReplaceLoop(
                  [k \in 1..Len(content) |->
                      IF content[k].repo = result.Repo.Repo
                      THEN [content[k] EXCEPT !.rev =
                               ReplaceRev(content[k].rev, String(result.Repo.SemVer),
                                          String(result.LatestVersion))]
                      ELSE content[k]],
                  results, i + 1))

\* ResultWriter.WritePreCommitChanges
WritePreCommitChanges(fs, results, io) ==
    IF ~io.read
    THEN Outcome(Errorf("failed to read config file: permission denied"), fs, <<>>)
    ELSE Let(ReplaceLoop(fs.config.repos, results, 1), LAMBDA content :
             IF content.panic THEN Panicked(fs, <<>>)
             ELSE WriteFile(fs, "config", [fs.config EXCEPT !.repos = content.val], io))

\* processCheckResults going on to write the changes, as Update does
processCheckResults_Writes(results, fs, io) ==
    Let(processResults(results), LAMBDA processed :
        IF processed.err # Nil THEN Outcome(processed.err, fs, <<>>)
        ELSE IF processed.hasUpdates
        THEN Let(WritePreCommitChanges(fs, results, io), LAMBDA changed :
                 [changed EXCEPT !.err = Errorf("updates are available")])
        ELSE Outcome(Nil, fs, <<>>))

\* processCheckResults; it is handed the files and leaves them alone
processCheckResults(results, fs, io) ==
    Let(processResults(results), LAMBDA processed :
        IF processed.err # Nil THEN Outcome(processed.err, fs, <<>>)
        ELSE IF processed.hasUpdates
        THEN Outcome(Errorf("updates are available"), fs, <<>>)
        ELSE Outcome(Nil, fs, <<>>))

\* processUpdateResults writing in a dry run
processUpdateResults_DryRunIgnored(results, config, fs, io) ==
    Let(processResults(results), LAMBDA processed :
        IF processed.err # Nil THEN Outcome(processed.err, fs, <<>>)
        ELSE IF processed.hasUpdates
        THEN WritePreCommitChanges(fs, results, io)
        ELSE Outcome(Nil, fs, <<>>))

\* processUpdateResults writing the summary whatever NoSummary says
processUpdateResults_AlwaysSummary(results, config, fs, io) ==
    Let(processResults(results), LAMBDA processed :
        IF processed.err # Nil THEN Outcome(processed.err, fs, <<>>)
        ELSE IF processed.hasUpdates /\ ~config.DryRun
        THEN Let(WritePreCommitChanges(fs, results, io), LAMBDA changed :
                 IF changed.panic \/ changed.err # Nil THEN changed
                 ELSE Let(WriteSummary(changed.files, results, config.Allow, io),
                          LAMBDA summed :
                              [summed EXCEPT !.calls = changed.calls \o summed.calls]))
        ELSE Outcome(Nil, fs, <<>>))

\* processUpdateResults going on to the summary when the configuration
\* file could not be written
processUpdateResults_IgnoresWriteError(results, config, fs, io) ==
    Let(processResults(results), LAMBDA processed :
        IF processed.err # Nil THEN Outcome(processed.err, fs, <<>>)
        ELSE IF processed.hasUpdates /\ ~config.DryRun
        THEN Let(WritePreCommitChanges(fs, results, io), LAMBDA changed :
                 IF changed.panic THEN changed
                 ELSE IF ~config.NoSummary
                 THEN Let(WriteSummary(changed.files, results, config.Allow, io),
                          LAMBDA summed :
                              [summed EXCEPT
                                  !.calls = changed.calls \o summed.calls,
                                  !.err = IF changed.err # Nil THEN changed.err
                                          ELSE summed.err])
                 ELSE changed)
        ELSE Outcome(Nil, fs, <<>>))

processUpdateResults(results, config, fs, io) ==
    Let(processResults(results), LAMBDA processed :
        IF processed.err # Nil THEN Outcome(processed.err, fs, <<>>)
        ELSE IF processed.hasUpdates /\ ~config.DryRun
        THEN Let(WritePreCommitChanges(fs, results, io), LAMBDA changed :
                 IF changed.panic THEN changed
                 ELSE IF changed.err # Nil
                 THEN [changed EXCEPT !.err =
                          Errorf("failed to write pre-commit changes: " \o changed.err.msg)]
                 ELSE IF ~config.NoSummary
                 THEN Let(WriteSummary(changed.files, results, config.Allow, io),
                          LAMBDA summed :
                              [summed EXCEPT
                                  !.calls = changed.calls \o summed.calls,
                                  !.err = IF summed.err # Nil
                                          THEN Errorf("failed to write summary: "
                                                      \o summed.err.msg)
                                          ELSE Nil])
                 ELSE changed)
        ELSE Outcome(Nil, fs, <<>>))

(***************************************************************************)
(* Inputs                                                                   *)
(***************************************************************************)
\* pre-release and build metadata of the versions compared
MetaData == {<<"", "">>, <<"alpha", "">>, <<"", "b1">>}

Versions ==
    {SemanticVersion(major, minor, patch, meta[1], meta[2]) :
        major \in 0..MaxNum, minor \in 0..MaxNum, patch \in 0..MaxNum,
        meta \in MetaData}

VersionPointers == Versions \cup {Nil}

\* the ceilings the command line accepts, and two values it does not
AllowedBumpTypes == {"major", "minor", "patch", "invalid", ""}

\* tag refs as a host returns them: plain and v-prefixed versions, equal
\* triples with different pre-release or build metadata, and names that
\* hold no version
TagRefs ==
    {"v1.0.0", "v2.1.0", "refs/tags/v1.5.0", "2.1.0-rc.1", "2.1.0+b1",
     "invalid-tag", "01.02.03"}

RECURSIVE SeqsUpTo(_, _)
SeqsUpTo(S, n) ==
    IF n = 0 THEN {<<>>}
    ELSE LET shorter == SeqsUpTo(S, n - 1)
         IN  shorter \cup {Append(q, x) : q \in {r \in shorter : Len(r) = n - 1}, x \in S}

\* the callers of findLatestVersion: GithubBumper.GetLatestVersion hands it
\* GitHubTags and the repository they were fetched for,
\* GitLabBumper.GetLatestVersion GitLabTags
TagSources ==
    {[kind |-> "github", repo |-> Repo("https://github.com/psf/black", "v1.0.0")],
     [kind |-> "gitlab", repo |-> Repo("https://gitlab.com/pycqa/flake8", "main")]}

TagLists(kind) ==
    {[i \in 1..Len(refs) |-> [kind |-> kind, Ref |-> refs[i]]] :
        refs \in SeqsUpTo(TagRefs, MaxTags)}

\* answers of a tag host: the request fails, the host answers with an error
\* status, the body is not a JSON list, and tag lists that hold no version,
\* the pinned version, or a patch, minor or major successor of 1.0.0
Responses ==
    {Response(Errorf("connection refused"), 0, NotJson),
     Response(Nil, 404, NotJson),
     Response(Nil, StatusOK, NotJson),
     Response(Nil, StatusOK, Json(<<"invalid-tag">>)),
     Response(Nil, StatusOK, Json(<<"v1.0.0">>)),
     Response(Nil, StatusOK, Json(<<"v1.0.1", "v1.0.0">>)),
     Response(Nil, StatusOK, Json(<<"refs/tags/v1.5.0", "v1.0.0">>)),
     Response(Nil, StatusOK, Json(<<"v2.1.0", "invalid-tag">>))}

\* repositories handed to checkSingleRepo: pinned to a version, or to a
\* branch (SemVer nil)
CheckRepos ==
    {Repo("https://github.com/psf/black", "v1.0.0"),
     Repo("https://gitlab.com/pycqa/flake8", "1.5.0"),
     Repo("https://github.com/org/hooks", "main")}

\* the numbers of the versions that are formatted: one and two digits
Components == (0..MaxNum) \cup {10}

\* well-formed pre-release strings, the empty one included: dot-separated
\* identifiers, each numeric without leading zero or of letters, digits
\* and hyphens, some of them starting with digits
PreReleases == {"", "alpha", "rc.1", "alpha-beta-1", "0", "1a", "0rc", "x.7.z"}

\* well-formed build strings, the empty one included
Builds == {"", "b1", "20130313144700", "exp.sha-5114f85"}

\* the versions whose String is taken
FormatVersions ==
    {SemanticVersion(major, minor, patch, preRelease, buildMetaData) :
        major \in Components, minor \in Components, patch \in Components,
        preRelease \in PreReleases, buildMetaData \in Builds}

\* the digits of a number, after a zero when padded
Padded(n, padded) == (IF padded THEN "0" ELSE "") \o ToString(n)

\* version strings in which one, two or all three of the digit groups have
\* a leading zero
LeadingZeroInputs ==
    {Padded(major, z[1]) \o "." \o Padded(minor, z[2]) \o "." \o Padded(patch, z[3]) :
        major \in 0..MaxNum, minor \in 0..MaxNum, patch \in 0..MaxNum,
        z \in (BOOLEAN \X BOOLEAN \X BOOLEAN) \ {<<FALSE, FALSE, FALSE>>}}

\* plain MAJOR.MINOR.PATCH triples
Cores ==
    {ToString(major) \o "." \o ToString(minor) \o "." \o ToString(patch) :
        major \in 0..MaxNum, minor \in 0..MaxNum, patch \in 0..MaxNum}

\* text before a version: none, v, V, a URL, a stray hyphen
Prefixes == {"", "v", "V", "https://github.com/some-owner/some-repo.git?rev=v", "-"}

\* text after a version: none, an extra .1, a dangling - or + without
\* payload, URL parameters, and a second version
Suffixes == {"", ".1", "-", "+", "-+", "&some-param=some-value", " v2.1.0"}

\* triples with text before and after them
SurroundedInputs ==
    {prefix \o core \o suffix : prefix \in Prefixes, core \in Cores, suffix \in Suffixes}

\* the text of a pre-release and a build string after a triple
MetaText(preRelease, buildMetaData) ==
    "-" \o preRelease \o (IF buildMetaData # "" THEN "+" \o buildMetaData ELSE "")

\* version strings M.m.p-PRE and M.m.p-PRE+BUILD
PreReleaseInputs ==
    {core \o MetaText(preRelease, buildMetaData) :
        core \in {"0.0.0", "1.0.0", "10.2.1"},
        preRelease \in PreReleases \ {""}, buildMetaData \in Builds}

ParseInputs ==
    TagRefs \cup {"", "1.0.0-alpha", "1.0.0-", "1.0.0+", "-1.0.0", "1.0.0.1"}
        \cup LeadingZeroInputs \cup SurroundedInputs \cup PreReleaseInputs

\* entries of a configuration file: repositories on GitHub and GitLab
\* pinned to a version, one pinned to a tag that holds its version after a
\* longer prefix, one pinned to a tag with a zero-padded patch number, one
\* on a host without updater, one pinned to a branch, the sentinel local,
\* and one without revision
FileEntries ==
    {[repo |-> "https://github.com/psf/black", rev |-> "v1.0.0"],
     [repo |-> "https://gitlab.com/pycqa/flake8", rev |-> "1.5.0"],
     [repo |-> "https://github.com/org/tools", rev |-> "rel-1.0.0"],
     [repo |-> "https://github.com/org/legacy", rev |-> "1.0.01"],
     [repo |-> "https://bitbucket.org/team/hooks", rev |-> "v1.0.0"],
     [repo |-> "https://github.com/org/hooks", rev |-> "main"],
     [repo |-> SentinelLocal, rev |-> ""],
     [repo |-> "https://github.com/org/unpinned", rev |-> ""]}

NoFile == [exists |-> FALSE, repos |-> <<>>]

\* the configuration files of the runs: none, or one with up to MaxRepos
\* repositories
ConfigFiles ==
    {NoFile} \cup {[exists |-> TRUE, repos |-> entries] : entries \in SeqsUpTo(FileEntries, MaxRepos)}

NoSummaryFile ==
    [exists |-> FALSE, policy |-> "", lines |-> <<>>,
     updatesApplied |-> 0, upToDate |-> 0, constrainedUpdates |-> 0]

\* the answers of the tag hosts in a run
RunResponses ==
    {Response(Nil, 404, NotJson),
     Response(Nil, StatusOK, Json(<<"invalid-tag">>)),
     Response(Nil, StatusOK, Json(<<"v1.0.1", "v1.0.0">>)),
     Response(Nil, StatusOK, Json(<<"refs/tags/v1.5.0", "v1.0.0">>)),
     Response(Nil, StatusOK, Json(<<"v2.1.0", "invalid-tag">>))}

\* the URLs a run asks the tag hosts about
FetchedURLs(file) ==
    {file.repos[i].repo : i \in {k \in 1..Len(file.repos) :
        /\ GetSemanticVersion(file.repos[k].rev).ok
        /\ GetVendor([Repo |-> file.repos[k].repo]) # ""}}

\* the configurations validateGlobalFlags accepts; the flags dry-run and
\* no-summary exist for the update command only
Configs(cmd) ==
    {[Allow |-> allow, DryRun |-> dryRun, NoSummary |-> noSummary] :
        allow \in {"major", "minor", "patch"},
        dryRun \in IF cmd = "update" THEN BOOLEAN ELSE {FALSE},
        noSummary \in IF cmd = "update" THEN BOOLEAN ELSE {FALSE}}

\* which file operations of the result writer succeed
IOs == [read : BOOLEAN, config : BOOLEAN, summary : BOOLEAN]

\* the state of the run variables while single functions are called
NoRun ==
    /\ command = ""
    /\ cfg = [Allow |-> "major", DryRun |-> FALSE, NoSummary |-> FALSE]
    /\ client = <<>>
    /\ files = [config |-> NoFile, summary |-> NoSummaryFile]
    /\ pc = "off"
    /\ repos = <<>>
    /\ repoIndex = 0
    /\ updateResults = <<>>
    /\ goroutines = <<>>
    /\ waitGroup = 0
    /\ slotWrites = <<>>
    /\ writeFileCalls = <<>>
    /\ err = Nil

(***************************************************************************)
(* One action per function: a behaviour is one call, applied to inputs     *)
(* drawn from the sets above, with its outcome recorded                     *)
(***************************************************************************)
Init == fn = "idle" /\ args = <<>> /\ ret = Returns(Nil) /\ NoRun

CallGetSemanticVersion ==
    /\ fn = "idle"
    /\ UNCHANGED runVars
    /\ \E version \in ParseInputs :
           /\ fn' = "GetSemanticVersion"
           /\ args' = [version |-> version]
           /\ ret' = Returns(GetSemanticVersion(version))

CallString ==
    /\ fn = "idle"
    /\ UNCHANGED runVars
    /\ \E s \in FormatVersions :
           /\ fn' = "String"
           /\ args' = [s |-> s]
           /\ ret' = Returns(String(s))

CallIsNewerVersionThan ==
    /\ fn = "idle"
    /\ UNCHANGED runVars
    /\ \E s \in VersionPointers, other \in VersionPointers :
           /\ fn' = "IsNewerVersionThan"
           /\ args' = [s |-> s, other |-> other]
           /\ ret' = IsNewerVersionThan(s, other)

CallGetBumpType ==
    /\ fn = "idle"
    /\ UNCHANGED runVars
    /\ \E s \in VersionPointers, other \in VersionPointers :
           /\ fn' = "GetBumpType"
           /\ args' = [s |-> s, other |-> other]
           /\ ret' = GetBumpType(s, other)

CallIsAllowedBumpFrom ==
    /\ fn = "idle"
    /\ UNCHANGED runVars
    /\ \E s \in VersionPointers, other \in VersionPointers,
          allowedBumpType \in AllowedBumpTypes :
           /\ fn' = "IsAllowedBumpFrom"
           /\ args' = [s |-> s, other |-> other, allowedBumpType |-> allowedBumpType]
           /\ ret' = IsAllowedBumpFrom(s, other, allowedBumpType)

CallFindLatestVersion ==
    /\ fn = "idle"
    /\ UNCHANGED runVars
    /\ \E source \in TagSources :
           \E tags \in TagLists(source.kind) :
               /\ fn' = "findLatestVersion"
               /\ args' = [tags |-> tags, repo |-> source.repo]
               /\ ret' = findLatestVersion(tags, source.repo)

CallCheckSingleRepo ==
    /\ fn = "idle"
    /\ UNCHANGED runVars
    /\ \E repo \in CheckRepos, vendor \in {VendorGitHub, VendorGitLab},
          resp \in Responses, allow \in AllowedBumpTypes :
           LET updater == [vendor |-> vendor, client |-> [u \in {repo.Repo} |-> resp]]
               config == [Allow |-> allow]
           IN  /\ fn' = "checkSingleRepo"
               /\ args' = [repo |-> repo, updater |-> updater, cfg |-> config]
               /\ ret' = checkSingleRepo(repo, updater, config)

Next ==
    \/ CallGetSemanticVersion
    \/ CallString
    \/ CallIsNewerVersionThan
    \/ CallGetBumpType
    \/ CallIsAllowedBumpFrom
    \/ CallFindLatestVersion
    \/ CallCheckSingleRepo

Spec == Init /\ [][Next]_vars

(***************************************************************************)
(* A run of the check or the update command: Bumper.Check / Bumper.Update   *)
(* with the goroutines of checkReposForUpdates interleaved                  *)
(***************************************************************************)
RunInit ==
    /\ fn = "idle" /\ args = <<>> /\ ret = Returns(Nil)
    /\ command \in {"check", "update"}
    /\ cfg \in Configs(command)
    /\ \E file \in ConfigFiles :
           /\ files = [config |-> file, summary |-> NoSummaryFile]
           /\ client \in [FetchedURLs(file) -> RunResponses]
    /\ pc = "start"
    /\ repos = <<>>
    /\ repoIndex = 0
    /\ updateResults = <<>>
    /\ goroutines = <<>>
    /\ waitGroup = 0
    /\ slotWrites = <<>>
    /\ writeFileCalls = <<>>
    /\ err = Nil

\* Check and Update up to the loop of checkReposForUpdates: the
\* configuration is parsed, its valid repositories are selected and the
\* results slice is made
ParseAndSelect ==
    /\ pc = "start"
    /\ LET parsed == ParseConfig(files.config)
       IN  IF parsed.err # Nil
           THEN /\ pc' = "done"
                /\ err' = Errorf("failed to parse pre-commit configuration: "
                                 \o parsed.err.msg)
                /\ UNCHANGED <<repos, repoIndex, updateResults>>
           ELSE /\ repos' = ValidRepos(parsed.pCfg)
                /\ updateResults' = [i \in 1..Len(repos') |-> ZeroUpdateResult]
                /\ repoIndex' = 1
                /\ pc' = IF Len(repos') = 0 THEN "wait" ELSE "loop"
                /\ err' = err
    /\ UNCHANGED <<fn, args, ret, command, cfg, client, files, goroutines, waitGroup,
                   slotWrites, writeFileCalls>>

\* one iteration of the loop of checkReposForUpdates
LoopIteration ==
    /\ pc = "loop"
    /\ LET currentRepo == repos[repoIndex]
           vendor == GetVendor(currentRepo)
       IN  IF vendor \notin {VendorGitHub, VendorGitLab}
           THEN /\ updateResults' =
                       [updateResults EXCEPT ![repoIndex] = NoUpdaterResult(currentRepo, vendor)]
                /\ slotWrites' =
                       Append(slotWrites, [slot |-> repoIndex, by |-> "loop", for |-> repoIndex])
                /\ UNCHANGED <<goroutines, waitGroup>>
           ELSE /\ waitGroup' = waitGroup + 1
                /\ goroutines' =
                       Append(goroutines,
                              Go(repoIndex, currentRepo, [vendor |-> vendor, client |-> client]))
                /\ UNCHANGED <<updateResults, slotWrites>>
    /\ repoIndex' = repoIndex + 1
    /\ pc' = IF repoIndex = Len(repos) THEN "wait" ELSE "loop"
    /\ UNCHANGED <<fn, args, ret, command, cfg, client, files, repos, writeFileCalls, err>>

\* a goroutine runs checkRepoAsync up to the store into the results
WorkerCheck(g) ==
    /\ pc \in {"loop", "wait"}
    /\ goroutines[g].state = "started"
    /\ LET store == checkRepoAsync(updateResults, goroutines[g].index,
                                   goroutines[g].repo, goroutines[g].updater, cfg)
       IN  IF store.panic
           THEN pc' = "panic" /\ UNCHANGED <<updateResults, slotWrites, goroutines>>
           ELSE /\ updateResults' =
                       [updateResults EXCEPT ![store.val.slot] = store.val.value]
                /\ slotWrites' =
                       Append(slotWrites, [slot |-> store.val.slot, by |-> "goroutine",
                                           for |-> goroutines[g].index])
                /\ goroutines' = [goroutines EXCEPT ![g].state = "stored"]
                /\ pc' = pc
    /\ UNCHANGED <<fn, args, ret, command, cfg, client, files, repos, repoIndex,
                   waitGroup, writeFileCalls, err>>

\* the deferred waitGroup.Done of checkRepoAsync
WorkerDone(g) ==
    /\ pc \in {"loop", "wait"}
    /\ goroutines[g].state = "stored"
    /\ goroutines' = [goroutines EXCEPT ![g].state = "done"]
    /\ waitGroup' = waitGroup - 1
    /\ UNCHANGED <<fn, args, ret, command, cfg, client, files, pc, repos, repoIndex,
                   updateResults, slotWrites, writeFileCalls, err>>

\* checkReposForUpdates returning without waiting for the goroutines
WaitReturns_NoWait ==
    /\ pc = "wait"
    /\ pc' = "returned"
    /\ UNCHANGED <<fn, args, ret, command, cfg, client, files, repos, repoIndex,
                   updateResults, goroutines, waitGroup, slotWrites, writeFileCalls, err>>

\* waitGroup.Wait returns and checkReposForUpdates returns the results
WaitReturns ==
    /\ pc = "wait"
    /\ waitGroup = 0
    /\ pc' = "returned"
    /\ UNCHANGED <<fn, args, ret, command, cfg, client, files, repos, repoIndex,
                   updateResults, goroutines, waitGroup, slotWrites, writeFileCalls, err>>

\* the outcome of processCheckResults or processUpdateResults is the
\* outcome of the command
Finish(outcome) ==
    /\ pc' = IF outcome.panic THEN "panic" ELSE "done"
    /\ err' = outcome.err
    /\ files' = outcome.files
    /\ writeFileCalls' = writeFileCalls \o outcome.calls
    /\ UNCHANGED <<fn, args, ret, command, cfg, client, repos, repoIndex,
                   updateResults, goroutines, waitGroup, slotWrites>>

CheckReturns ==
    /\ pc = "returned"
    /\ command = "check"
    /\ \E io \in IOs : Finish(processCheckResults(updateResults, files, io))

UpdateReturns ==
    /\ pc = "returned"
    /\ command = "update"
    /\ \E io \in IOs : Finish(processUpdateResults(updateResults, cfg, files, io))

RunNext ==
    \/ ParseAndSelect
    \/ LoopIteration
    \/ \E g \in 1..Len(goroutines) : WorkerCheck(g)
    \/ \E g \in 1..Len(goroutines) : WorkerDone(g)
    \/ WaitReturns
    \/ CheckReturns
    \/ UpdateReturns

RunSpec == RunInit /\ [][RunNext]_vars

(***************************************************************************)
(* Properties                                                               *)
(***************************************************************************)
Triple(v) == <<v.Major, v.Minor, v.Patch>>

\* t is strictly greater than u in lexicographic order
LexGreater(t, u) ==
    \E k \in 1..3 : t[k] > u[k] /\ \A j \in 1..(k - 1) : t[j] = u[j]

BothPresent == args.s # Nil /\ args.other # Nil

Ceilings == {"major", "minor", "patch"}

\* C1: for two present versions IsNewerVersionThan is true exactly when
\* the (major, minor, patch) triple of the receiver is strictly greater in
\* lexicographic order; pre-release and build metadata play no part
C1_NewerIsTripleOrder ==
    (fn = "IsNewerVersionThan" /\ BothPresent)
        => ret = Returns(LexGreater(Triple(args.s), Triple(args.other)))

\* same triple, different pre-release: not newer
C1_Witness ==
    /\ fn = "IsNewerVersionThan" /\ BothPresent
    /\ Triple(args.s) = Triple(args.other)
    /\ args.s.PreRelease = "alpha" /\ args.other.PreRelease = ""
    /\ ret = Returns(FALSE)

\* C2: for present versions GetBumpType is major when the candidate's
\* major is greater, else minor when majors are equal and its minor is
\* greater, else patch when major and minor are equal and its patch is
\* greater, else the empty string
C2_BumpTypeClassifies ==
    (fn = "GetBumpType" /\ BothPresent)
        => LET a == args.s
               b == args.other
           IN  ret = Returns(
                   IF a.Major > b.Major THEN "major"
                   ELSE IF a.Major = b.Major /\ a.Minor > b.Minor THEN "minor"
                   ELSE IF a.Major = b.Major /\ a.Minor = b.Minor /\ a.Patch > b.Patch
                        THEN "patch"
                   ELSE "")

\* a lower minor with a higher patch, majors equal, is no bump
C2_Witness ==
    /\ fn = "GetBumpType" /\ BothPresent
    /\ args.s.Major = args.other.Major
    /\ args.s.Minor < args.other.Minor
    /\ args.s.Patch > args.other.Patch
    /\ ret = Returns("")

\* the magnitude of the bump from u to t: 3 major, 2 minor, 1 patch, 0 none
BumpRank(t, u) ==
    IF ~LexGreater(t, u) THEN 0
    ELSE 4 - (CHOOSE k \in 1..3 : t[k] # u[k] /\ \A j \in 1..(k - 1) : t[j] = u[j])

CeilingRank(ceiling) ==
    CASE ceiling = "major" -> 3 [] ceiling = "minor" -> 2 [] ceiling = "patch" -> 1

\* C3: for a ceiling major, minor or patch and present versions,
\* IsAllowedBumpFrom is true exactly when there is a bump and its magnitude
\* does not exceed the ceiling
C3_AllowedWithinCeiling ==
    (fn = "IsAllowedBumpFrom" /\ BothPresent /\ args.allowedBumpType \in Ceilings)
        => LET rank == BumpRank(Triple(args.s), Triple(args.other))
           IN  ret = Returns(rank >= 1 /\ rank <= CeilingRank(args.allowedBumpType))

\* a minor bump is rejected under ceiling patch
C3_Witness ==
    /\ fn = "IsAllowedBumpFrom" /\ BothPresent
    /\ args.allowedBumpType = "patch"
    /\ BumpRank(Triple(args.s), Triple(args.other)) = 2
    /\ ret = Returns(FALSE)

\* C4: under every ceiling IsAllowedBumpFrom is false when the candidate is
\* not strictly newer than the baseline
C4_AllowedOnlyStrictUpgrade ==
    (fn = "IsAllowedBumpFrom" /\ BothPresent
     /\ ~LexGreater(Triple(args.s), Triple(args.other)))
        => ret = Returns(FALSE)

\* a downgrade under ceiling major
C4_Witness ==
    /\ fn = "IsAllowedBumpFrom" /\ BothPresent
    /\ args.allowedBumpType = "major"
    /\ LexGreater(Triple(args.other), Triple(args.s))
    /\ ret = Returns(FALSE)

\* C5: without a baseline IsAllowedBumpFrom is false for every candidate
\* and every ceiling value
C5_NoBaselineNotAllowed ==
    (fn = "IsAllowedBumpFrom" /\ args.other = Nil) => ret = Returns(FALSE)

C5_Witness ==
    /\ fn = "IsAllowedBumpFrom"
    /\ args.other = Nil /\ args.s # Nil
    /\ args.allowedBumpType = "major"
    /\ ret = Returns(FALSE)

\* C6: for a ceiling other than major, minor and patch IsAllowedBumpFrom
\* returns false, whatever the versions, and does not panic
C6_UnknownCeilingFailsClosed ==
    (fn = "IsAllowedBumpFrom" /\ args.allowedBumpType \notin Ceilings)
        => ret = Returns(FALSE)

\* a genuine upgrade under an unknown ceiling
C6_Witness ==
    /\ fn = "IsAllowedBumpFrom" /\ BothPresent
    /\ args.allowedBumpType = "invalid"
    /\ LexGreater(Triple(args.s), Triple(args.other))
    /\ ret = Returns(FALSE)

\* C7: with the candidate, the baseline or both absent, IsNewerVersionThan
\* returns false and GetBumpType returns the empty string, and neither
\* panics
C7_AbsentOperandTolerated ==
    /\ (fn = "IsNewerVersionThan" /\ ~BothPresent) => ret = Returns(FALSE)
    /\ (fn = "GetBumpType" /\ ~BothPresent) => ret = Returns("")

\* the parses of the tags of a list, position by position
ParsedTags(tags) == [i \in 1..Len(tags) |-> GetSemanticVersion(GetTagName(tags[i]))]

\* the positions that parse, in a list of parses
Parsable(parsed) == {i \in DOMAIN parsed : parsed[i].ok}

\* the positions of the parses whose triple no parse exceeds
Maximal(parsed) ==
    {i \in Parsable(parsed) :
        \A j \in Parsable(parsed) :
            ~LexGreater(Triple(parsed[j].semVer), Triple(parsed[i].semVer))}

\* C8: when at least one tag parses, findLatestVersion returns the parse of
\* one of the tags, no tag that parses is strictly newer than it, and the
\* tags that do not parse change nothing: the outcome is that of the list
\* with those tags left out
C8_LatestIsMaximal ==
    fn = "findLatestVersion"
        => LET parsed == ParsedTags(args.tags)
               kept   == {i \in 1..Len(args.tags) : parsed[i].ok}
               \* the tags that parse, in their order
               RECURSIVE Keep(_)
               Keep(i) == IF i > Len(args.tags) THEN <<>>
                          ELSE IF i \in kept THEN <<args.tags[i]>> \o Keep(i + 1)
                          ELSE Keep(i + 1)
           IN  Parsable(parsed) # {}
                   => /\ ~ret.panic
                      /\ ret.val.err = Nil
                      /\ \E i \in Parsable(parsed) : ret.val.version = parsed[i].semVer
                      /\ \A j \in Parsable(parsed) :
                             ~LexGreater(Triple(parsed[j].semVer), Triple(ret.val.version))
                      /\ ret = findLatestVersion(Keep(1), args.repo)

\* the maximum stands between two tags that do not parse
C8_Witness ==
    /\ fn = "findLatestVersion"
    /\ Len(args.tags) = 3
    /\ LET parsed == ParsedTags(args.tags)
       IN  /\ Parsable(parsed) = {2}
           /\ ret = Returns([version |-> parsed[2].semVer, err |-> Nil])

\* C9: among the tags with the maximal triple findLatestVersion returns the
\* one that comes first in the list
C9_FirstOfEqualTriplesWins ==
    fn = "findLatestVersion"
        => LET parsed  == ParsedTags(args.tags)
               maximal == Maximal(parsed)
               first   == CHOOSE i \in maximal : \A j \in maximal : i <= j
           IN  maximal # {}
                   => /\ ~ret.panic
                      /\ ret.val.version = parsed[first].semVer

\* two tags with the maximal triple and different pre-release or build
\* metadata: the earlier one is returned
C9_Witness ==
    /\ fn = "findLatestVersion"
    /\ LET parsed == ParsedTags(args.tags)
       IN  \E i, j \in Maximal(parsed) :
               /\ i < j
               /\ parsed[i].semVer # parsed[j].semVer
               /\ ret.val.version = parsed[i].semVer

\* C10: findLatestVersion fails exactly when no tag parses; then the
\* version is nil and the error is the no-tags error naming the repository
\* and its revision; otherwise the error is nil and the version is not
C10_FailsIffNoTagParses ==
    fn = "findLatestVersion"
        => /\ ~ret.panic
           /\ (ret.val.err # Nil) <=> (Parsable(ParsedTags(args.tags)) = {})
           /\ ret.val.err # Nil
                => /\ ret.val.version = Nil
                   /\ Contains(ret.val.err.msg, "no semantic version tags found")
                   /\ Contains(ret.val.err.msg, args.repo.Repo)
                   /\ Contains(ret.val.err.msg, args.repo.Rev)
           /\ ret.val.err = Nil => ret.val.version # Nil

\* a list of tags none of which parses
C10_Witness ==
    /\ fn = "findLatestVersion"
    /\ Len(args.tags) >= 2
    /\ Parsable(ParsedTags(args.tags)) = {}
    /\ ret.val.version = Nil
    /\ ret.val.err # Nil

\* the outcome of GetLatestVersion in the call recorded
Got == GetLatestVersion(args.updater, args.repo).val

\* C11: when obtaining the latest version fails (the fetch fails or no tag
\* is a version), checkSingleRepo returns a result with Error set,
\* UpdateRequired false, LatestVersion nil and Repo the input repository
C11_FailureGivesErrorResult ==
    (fn = "checkSingleRepo" /\ Got.err # Nil)
        => /\ ~ret.panic
           /\ ret.val.Error # Nil
           /\ ret.val.UpdateRequired = FALSE
           /\ ret.val.LatestVersion = Nil
           /\ ret.val.Repo = args.repo

\* the host answers, and none of its tags is a version
C11_Witness ==
    /\ fn = "checkSingleRepo"
    /\ args.updater.client[args.repo.Repo].Body = Json(<<"invalid-tag">>)
    /\ Got.err # Nil
    /\ ret.val.Error # Nil
    /\ ret.val.UpdateRequired = FALSE

\* C12: when the latest version is obtained, checkSingleRepo returns a
\* result with no Error, LatestVersion the selected version, Repo the input
\* repository, and UpdateRequired = IsAllowedBumpFrom(latest, current,
\* ceiling); a newer version outside the ceiling gives UpdateRequired false
\* and no error
C12_SuccessGivesPolicyDecision ==
    (fn = "checkSingleRepo" /\ Got.err = Nil)
        => /\ ~ret.panic
           /\ ret.val.Error = Nil
           /\ ret.val.LatestVersion = Got.version
           /\ ret.val.LatestVersion # Nil
           /\ ret.val.Repo = args.repo
           /\ ret.val.UpdateRequired
                  = IsAllowedBumpFrom(Got.version, args.repo.SemVer, args.cfg.Allow).val
           /\ (/\ args.repo.SemVer # Nil
               /\ LexGreater(Triple(Got.version), Triple(args.repo.SemVer))
               /\ args.cfg.Allow \in Ceilings
               /\ BumpRank(Triple(Got.version), Triple(args.repo.SemVer))
                      > CeilingRank(args.cfg.Allow))
                  => (ret.val.UpdateRequired = FALSE /\ ret.val.Error = Nil)

\* a major bump under ceiling minor
C12_Witness ==
    /\ fn = "checkSingleRepo"
    /\ args.cfg.Allow = "minor"
    /\ args.repo.Rev = "v1.0.0"
    /\ Got.err = Nil
    /\ Got.version.Major = 2
    /\ ret.val.UpdateRequired = FALSE
    /\ ret.val.Error = Nil
    /\ ret.val.LatestVersion = Got.version

(***************************************************************************)
(* Properties of a run                                                      *)
(***************************************************************************)
\* checkReposForUpdates has returned
Returned == pc \in {"returned", "done"}

\* the result checkReposForUpdates owes a repository, computed on its own
\* from the repository, the answers of the hosts and the configuration
Decision(repo, answers, config) ==
    Let(GetVendor(repo), LAMBDA vendor :
        IF vendor \notin {VendorGitHub, VendorGitLab}
        THEN NoUpdaterResult(repo, vendor)
        ELSE checkSingleRepo(repo, [vendor |-> vendor, client |-> answers], config).val)

\* the results of the decision step taken one repository after the other
SequentialResults(rs, answers, config) ==
    [i \in 1..Len(rs) |-> Decision(rs[i], answers, config)]

\* the repositories another run may have in the place of a repository
OtherRepos ==
    {Repo(e.repo, e.rev) : e \in {f \in FileEntries : GetSemanticVersion(f.rev).ok}}

\* the answers of the hosts when the host of url answers with resp
AnswersWith(url, resp) ==
    [u \in DOMAIN client \cup {url} |-> IF u = url THEN resp ELSE client[u]]

\* C13: the result for repository i depends only on repository i, its own
\* tags and the ceiling: a run whose list differs in some other repository
\* j (another repository, another vendor, other tags or a failure in its
\* place) has the same result for every i other than j
C13_ResultIndependentOfOthers ==
    pc = "returned"
        => \A j \in 1..Len(repos), other \in OtherRepos, resp \in RunResponses :
               LET otherRun ==
                       SequentialResults([repos EXCEPT ![j] = other],
                                         AnswersWith(other.Repo, resp), cfg)
               IN  \A i \in 1..Len(repos) :
                       (i # j /\ repos[i].Repo # other.Repo)
                           => updateResults[i] = otherRun[i]

\* two repositories: the lookup of one fails, the other gets its update
C13_Witness ==
    /\ pc = "returned"
    /\ Len(repos) = 2
    /\ updateResults[1].Error # Nil
    /\ updateResults[2].Error = Nil
    /\ updateResults[2].UpdateRequired

\* C14: under every interleaving each slot of the results slice is stored
\* into exactly once, by the goroutine (or the branch for a vendor without
\* updater) of the repository at that index: no two stores go to the same
\* slot, none goes to a slot other than the storer's own, and when
\* checkReposForUpdates returns every slot has had its store
C14_EachSlotWrittenOnceByOwner ==
    /\ \A k \in 1..Len(slotWrites) :
           /\ slotWrites[k].slot = slotWrites[k].for
           /\ slotWrites[k].slot \in 1..Len(repos)
           /\ updateResults[slotWrites[k].slot].Repo = repos[slotWrites[k].slot]
           /\ \A l \in 1..Len(slotWrites) :
                  slotWrites[l].slot = slotWrites[k].slot => l = k
    /\ Returned
           => \A i \in 1..Len(repos) : \E k \in 1..Len(slotWrites) : slotWrites[k].slot = i

\* two goroutines, the second of which stores first
C14_Witness ==
    /\ Returned
    /\ Len(slotWrites) = 2
    /\ slotWrites[1] = [slot |-> 2, by |-> "goroutine", for |-> 2]
    /\ slotWrites[2] = [slot |-> 1, by |-> "goroutine", for |-> 1]

\* C15: the decision step is a function of its inputs: whatever order the
\* goroutines start and finish in, the results it returns for the same
\* repositories, tag lists and ceiling are the same, position by position
C15_ResultsDeterminedByInputs ==
    Returned => updateResults = SequentialResults(repos, client, cfg)

\* two goroutines with different results, stored in either order
C15_Witness ==
    /\ pc = "returned"
    /\ Len(goroutines) = 2
    /\ slotWrites[1].slot = 2
    /\ updateResults[1].UpdateRequired
    /\ ~updateResults[2].UpdateRequired

\* the configuration was parsed and checkReposForUpdates was called
ReposChecked == repoIndex > 0

\* C16: a repository whose revision is no version (a branch name) is
\* tolerated by a run: the run still has a decision for it, without
\* baseline and with UpdateRequired false, and does not fail on it
C16_UnparsedRevisionGetsDecision ==
    (pc = "returned" /\ ReposChecked)
        => \A k \in 1..Len(files.config.repos) :
               LET entry == files.config.repos[k]
               IN  (/\ entry.repo \notin {SentinelLocal, SentinelMeta}
                    /\ ~GetSemanticVersion(entry.rev).ok)
                       => \E i \in 1..Len(updateResults) :
                              /\ updateResults[i].Repo.Repo = entry.repo
                              /\ updateResults[i].Repo.Rev = entry.rev
                              /\ updateResults[i].Repo.SemVer = Nil
                              /\ updateResults[i].UpdateRequired = FALSE

\* some result carries an error
SomeError == \E i \in 1..Len(updateResults) : updateResults[i].Error # Nil

\* some result requires an update
SomeUpdate == \E i \in 1..Len(updateResults) : updateResults[i].UpdateRequired

\* repository i was looked up and its host lists a tag strictly newer than
\* its pinned revision
HasNewerTag(i) ==
    /\ repos[i].Repo \in DOMAIN client
    /\ \E k \in 1..Len(client[repos[i].Repo].Body.refs) :
           LET parsed == GetSemanticVersion(GetTagName(
                   [kind |-> GetVendor(repos[i]), Ref |-> client[repos[i].Repo].Body.refs[k]]))
           IN  parsed.ok /\ LexGreater(Triple(parsed.semVer), Triple(repos[i].SemVer))

\* under ceiling major Check fails whenever a checked repository has a tag
\* strictly newer than its pinned revision
FailsOnNewerTagUnderMajor ==
    (cfg.Allow = "major" /\ \E i \in 1..Len(repos) : HasNewerTag(i)) => err # Nil

\* C17 as stated: Check returns an error if and only if some repository's
\* check errored or some repository has UpdateRequired, and nil exactly
\* when none errored and none has a permitted update
C17_CheckFailsIffErrorOrUpdate ==
    (command = "check" /\ pc = "done")
        => /\ (err # Nil) <=> (SomeError \/ SomeUpdate)
           /\ FailsOnNewerTagUnderMajor

\* C17 amended: when the configuration file cannot be read or is not valid
\* Check returns an error without checking any repository; when it is
\* parsed, Check returns an error if and only if some repository's check
\* errored or some repository has UpdateRequired, so under ceiling major it
\* fails whenever a checked repository has a strictly newer tag
C17_CheckFailsIffParseErrorOrUpdate ==
    (command = "check" /\ pc = "done")
        => /\ ~ReposChecked => (err # Nil /\ updateResults = <<>>)
           /\ ReposChecked => ((err # Nil) <=> (SomeError \/ SomeUpdate))
           /\ FailsOnNewerTagUnderMajor

\* Check returns nil although a newer version exists: the ceiling forbids it
C17_Witness ==
    /\ command = "check" /\ pc = "done"
    /\ ReposChecked
    /\ Len(repos) = 2
    /\ \E i \in 1..Len(repos) : HasNewerTag(i)
    /\ ~SomeError /\ ~SomeUpdate
    /\ err = Nil

\* no WriteFile call was made, summary.md does not exist and the
\* configuration file still holds the repositories that were parsed
NothingWritten ==
    /\ writeFileCalls = <<>>
    /\ files.summary = NoSummaryFile
    /\ ReposChecked =>
           ValidRepos(PopulateSemVer([Repos |-> Unmarshal(files.config)])) = repos

\* C18: Check never modifies the configuration file and never writes
\* summary.md, whether updates are available, none are, or errors occurred
C18_CheckWritesNothing ==
    command = "check" => NothingWritten

\* Check has found an update and has returned
C18_Witness ==
    /\ command = "check" /\ pc = "done"
    /\ SomeUpdate /\ ~SomeError
    /\ err = Errorf("updates are available")
    /\ NothingWritten

\* C19 as stated: in a dry run of Update neither file is written, whatever
\* the updates and the no-summary setting, and Update returns nil when no
\* repository errored
C19_DryRunWritesNothingReturnsNil ==
    (command = "update" /\ cfg.DryRun)
        => /\ NothingWritten
           /\ (pc = "done" /\ ~SomeError) => err = Nil

\* C19 amended: in a dry run of Update neither file is written, whatever
\* the updates and the no-summary setting, and Update returns nil when the
\* configuration file was parsed and no repository errored
C19_DryRunWritesNothing ==
    (command = "update" /\ cfg.DryRun)
        => /\ NothingWritten
           /\ (pc = "done" /\ ReposChecked /\ ~SomeError) => err = Nil
           /\ (pc = "done" /\ ~ReposChecked) => err # Nil

\* a dry run that would write the summary too finds a permitted update
C19_Witness ==
    /\ command = "update" /\ cfg.DryRun /\ ~cfg.NoSummary
    /\ pc = "done"
    /\ SomeUpdate /\ ~SomeError
    /\ err = Nil
    /\ NothingWritten

\* a WriteFile call for the file succeeded
Written(name) ==
    \E k \in 1..Len(writeFileCalls) : writeFileCalls[k] = [name |-> name, ok |-> TRUE]

\* a WriteFile call for the file was made
WriteTried(name) ==
    \E k \in 1..Len(writeFileCalls) : writeFileCalls[k].name = name

\* C20 as stated: Update without dry-run and with a permitted update
\* rewrites the configuration file; with no-summary it does not write
\* summary.md, without no-summary it writes both
C20_NoSummaryWritesConfigOnly ==
    (command = "update" /\ pc = "done" /\ ~cfg.DryRun /\ SomeUpdate)
        => /\ Written("config")
           /\ cfg.NoSummary => ~WriteTried("summary")
           /\ ~cfg.NoSummary => (Written("summary") /\ files.summary.exists)

\* C20 amended: when Update runs without dry-run, with a permitted update
\* and no repository error: with no-summary summary.md is never written,
\* and the configuration file is rewritten unless reading or writing it
\* fails; without no-summary both are written unless a file operation
\* fails; Update returns an error exactly when a file operation failed
C20_NoSummaryWritesConfigOnlyIfNoFailure ==
    (command = "update" /\ pc = "done" /\ ~cfg.DryRun /\ SomeUpdate /\ ~SomeError)
        => /\ cfg.NoSummary => (~WriteTried("summary") /\ files.summary = NoSummaryFile)
           /\ err = Nil
                  => /\ Written("config")
                     /\ ~cfg.NoSummary => (Written("summary") /\ files.summary.exists)
           /\ err # Nil
                  => \/ writeFileCalls = <<>>
                     \/ ~writeFileCalls[Len(writeFileCalls)].ok

\* with no-summary the configuration file alone is written
C20_Witness ==
    /\ command = "update" /\ pc = "done"
    /\ ~cfg.DryRun /\ cfg.NoSummary
    /\ SomeUpdate /\ ~SomeError
    /\ err = Nil
    /\ writeFileCalls = <<[name |-> "config", ok |-> TRUE]>>
    /\ files.summary = NoSummaryFile
    /\ files.config.repos[1].rev = "v2.1.0"

(***************************************************************************)
(* Properties of the result writer, of the parser and of whole runs         *)
(***************************************************************************)
\* the results that ask for the rewrite of an entry of the file
RequiredFor(entry) ==
    {i \in 1..Len(updateResults) :
        /\ updateResults[i].UpdateRequired
        /\ updateResults[i].Error = Nil
        /\ updateResults[i].Repo.Repo = entry.repo
        /\ updateResults[i].Repo.Rev = entry.rev}

\* the file keeps its entries and their repositories
SameEntries ==
    /\ files'.config.exists = files.config.exists
    /\ Len(files'.config.repos) = Len(files.config.repos)
    /\ \A k \in 1..Len(files.config.repos) :
           files'.config.repos[k].repo = files.config.repos[k].repo

\* C21: in every step of a run the revision of an entry changes only if a
\* result with UpdateRequired and no Error asks for it, and the revision
\* then holds the latest version in canonical form (a prefix such as the v
\* of v1.0.0 is not counted as part of the version); every other revision
\* stays as it is
C21_RewritesOnlyRequired ==
    [][/\ SameEntries
       /\ \A k \in 1..Len(files.config.repos) :
              LET old == files.config.repos[k]
                  new == files'.config.repos[k]
              IN  new.rev # old.rev
                      => \E i \in RequiredFor(old) :
                             /\ Contains(new.rev, String(updateResults[i].LatestVersion))
                             /\ GetSemanticVersion(new.rev) =
                                    [semVer |-> updateResults[i].LatestVersion, ok |-> TRUE]]_vars

\* C22: parsing is a left inverse of formatting: for every version with a
\* well-formed (possibly empty) pre-release and build string,
\* GetSemanticVersion of its String succeeds and returns a version equal
\* to it in all five fields
C22_ParseInvertsString ==
    fn = "String"
        => GetSemanticVersion(ret.val) = [semVer |-> args.s, ok |-> TRUE]

\* C23: GetSemanticVersion reports not-a-version for every input in which
\* one or more of the major, minor and patch digit groups has a leading
\* zero; it never strips the zeros and returns a version
C23_LeadingZerosRejected ==
    (fn = "GetSemanticVersion" /\ args.version \in LeadingZeroInputs)
        => ~ret.val.ok

\* C24: GetSemanticVersion uses the leftmost MAJOR.MINOR.PATCH match only:
\* text before it (v, V, a URL, a stray hyphen) and text after it (an extra
\* .1, a dangling - or + without payload, URL parameters, a second
\* version) never makes the parse fail and never changes the parsed
\* numbers, and a dangling - or + leaves pre-release and build empty
C24_LeftmostMatchOnly ==
    fn = "GetSemanticVersion"
        => \A prefix \in Prefixes, suffix \in Suffixes :
           \A major \in 0..MaxNum, minor \in 0..MaxNum, patch \in 0..MaxNum :
               args.version = prefix \o String(SemanticVersion(major, minor, patch, "", ""))
                                  \o suffix
                   => /\ ret.val.ok
                      /\ ret.val.semVer = SemanticVersion(major, minor, patch, "", "")

\* a version after a URL and before URL parameters
C24_Witness ==
    /\ fn = "GetSemanticVersion"
    /\ args.version =
           "https://github.com/some-owner/some-repo.git?rev=v1.2.1&some-param=some-value"
    /\ ret.val.ok
    /\ ret.val.semVer = SemanticVersion(1, 2, 1, "", "")

\* C25: for every input M.m.p-PRE or M.m.p-PRE+BUILD whose PRE is made of
\* well-formed identifiers, those starting with digits (1a, 0rc) included,
\* the parsed PreRelease is the whole string between the - and the
\* optional +, and the parsed BuildMetaData the whole string after the +
C25_PreReleaseAndBuildVerbatim ==
    fn = "GetSemanticVersion"
        => \A core \in {"0.0.0", "1.0.0", "10.2.1"} :
           \A preRelease \in PreReleases \ {""}, buildMetaData \in Builds :
               args.version = core \o MetaText(preRelease, buildMetaData)
                   => /\ ret.val.ok
                      /\ ret.val.semVer.PreRelease = preRelease
                      /\ ret.val.semVer.BuildMetaData = buildMetaData

\* result i has a latest version strictly newer than the pinned one and no
\* permission to update
Blocked(i) ==
    /\ ~updateResults[i].UpdateRequired
    /\ updateResults[i].LatestVersion # Nil
    /\ updateResults[i].Repo.SemVer # Nil
    /\ LexGreater(Triple(updateResults[i].LatestVersion),
                  Triple(updateResults[i].Repo.SemVer))

\* the summary holds one line per result
SummaryWritten ==
    /\ pc = "done"
    /\ Written("summary")

\* C26: WriteSummary puts each result in exactly one of three classes:
\* updated (UpdateRequired), blocked by policy (not UpdateRequired and
\* latest strictly newer than current), up to date (everything else); the
\* three counters sum to the number of results; and a blocked result keeps
\* the decision the policy gave it, UpdateRequired false, and its
\* revision in the configuration file
C26_SummaryClassesPartition ==
    SummaryWritten
        => /\ Len(files.summary.lines) = Len(updateResults)
           /\ \A i \in 1..Len(updateResults) :
                  /\ files.summary.lines[i].repo = updateResults[i].Repo.Repo
                  /\ files.summary.lines[i].class =
                         (IF updateResults[i].UpdateRequired THEN "updated"
                          ELSE IF Blocked(i) THEN "constrained"
                          ELSE "upToDate")
                  /\ Blocked(i)
                         => /\ updateResults[i] = Decision(repos[i], client, cfg)
                            /\ \E k \in 1..Len(files.config.repos) :
                                   files.config.repos[k].repo = repos[i].Repo
                            /\ \A k \in 1..Len(files.config.repos) :
                                   files.config.repos[k].repo = repos[i].Repo
                                       => files.config.repos[k].rev = repos[i].Rev
           /\ files.summary.updatesApplied =
                  Cardinality({i \in 1..Len(updateResults) : updateResults[i].UpdateRequired})
           /\ files.summary.constrainedUpdates =
                  Cardinality({i \in 1..Len(updateResults) : Blocked(i)})
           /\ files.summary.updatesApplied + files.summary.upToDate
                  + files.summary.constrainedUpdates = Len(updateResults)

\* a summary with one update applied and one blocked by the policy
C26_Witness ==
    /\ SummaryWritten
    /\ Len(updateResults) = 2
    /\ updateResults[1].UpdateRequired
    /\ Blocked(2)
    /\ files.summary.updatesApplied = 1
    /\ files.summary.constrainedUpdates = 1
    /\ files.summary.upToDate = 0
    /\ files.config.repos[2].rev = repos[2].Rev

\* repository i has no updater
Unsupported(i) == GetVendor(repos[i]) \notin {VendorGitHub, VendorGitLab}

\* the results slice when checkReposForUpdates returns
AtReturn ==
    /\ \A g \in 1..Len(goroutines) : goroutines[g].state = "done"
    /\ waitGroup = 0
    /\ Len(updateResults) = Len(repos)
    /\ Len(slotWrites) = Len(repos)
    /\ \A i \in 1..Len(repos) :
           /\ updateResults[i].Repo = repos[i]
           /\ Unsupported(i)
                  => /\ updateResults[i].Error # Nil
                     /\ ~updateResults[i].UpdateRequired
                     /\ \A g \in 1..Len(goroutines) : goroutines[g].index # i
           /\ ~Unsupported(i)
                  => \E g \in 1..Len(goroutines) : goroutines[g].index = i

\* C27: checkReposForUpdates returns only after every goroutine it started
\* has finished: at the return the results hold one entry per repository
\* with results[i].Repo = repos[i], a repository with an unsupported vendor
\* has an error entry at its own index and no goroutine, and no step after
\* the return stores into the results
C27_ReturnsAfterAllWorkers ==
    [][Returned
           => /\ AtReturn
              /\ updateResults' = updateResults
              /\ slotWrites' = slotWrites
              /\ goroutines' = goroutines]_vars

\* the return with one goroutine finished and one repository without
\* updater
C27_Witness ==
    /\ Returned
    /\ Len(repos) = 2
    /\ Unsupported(1) /\ updateResults[1].Error # Nil
    /\ ~Unsupported(2) /\ updateResults[2].LatestVersion # Nil
    /\ Len(goroutines) = 1
    /\ goroutines[1].index = 2 /\ goroutines[1].state = "done"
    /\ slotWrites[2].by = "goroutine"

\* C28: a run is all-or-nothing with respect to check errors: when some
\* result carries an Error, Update returns an error and writes neither the
\* configuration file nor summary.md, even when other repositories have
\* permitted updates; and Check returns the check errors, not 'updates are
\* available'
C28_ErrorsBlockAllWrites ==
    (pc = "done" /\ SomeError)
        => /\ err # Nil
           /\ Contains(err.msg, "errors occurred while checking repositories")
           /\ err # Errorf("updates are available")
           /\ NothingWritten

\* Update finds a permitted update for one repository and an error for the
\* other, and writes nothing
C28_Witness ==
    /\ command = "update" /\ pc = "done"
    /\ ~cfg.DryRun
    /\ Len(updateResults) = 2
    /\ updateResults[1].UpdateRequired /\ updateResults[1].Error = Nil
    /\ updateResults[2].Error # Nil
    /\ err # Nil
    /\ NothingWritten

\* C29: in every Update run summary.md is written only after the
\* configuration file has been written successfully: without a permitted
\* update nothing is written at all, and when writing the configuration
\* file fails Update returns an error and summary.md is never written
C29_SummaryOnlyAfterConfig ==
    command = "update"
        => /\ \A k \in 1..Len(writeFileCalls) :
                  writeFileCalls[k].name = "summary"
                      => \E j \in 1..(k - 1) :
                             writeFileCalls[j] = [name |-> "config", ok |-> TRUE]
           /\ files.summary.exists => Written("config")
           /\ (pc = "done" /\ ~SomeUpdate) => NothingWritten
           /\ (\E k \in 1..Len(writeFileCalls) :
                   writeFileCalls[k] = [name |-> "config", ok |-> FALSE])
                  => /\ err # Nil
                     /\ ~WriteTried("summary")
                     /\ files.summary = NoSummaryFile

\* the write of the configuration file fails in a run that would have
\* written the summary
C29_Witness ==
    /\ command = "update" /\ pc = "done"
    /\ ~cfg.DryRun /\ ~cfg.NoSummary
    /\ SomeUpdate /\ ~SomeError
    /\ writeFileCalls = <<[name |-> "config", ok |-> FALSE]>>
    /\ err # Nil
    /\ files.summary = NoSummaryFile

\* the parsable tags the host of a repository lists, parsed
ParsedTagsOf(repo) ==
    IF repo \notin DOMAIN client \/ ~client[repo].Body.decodes THEN {}
    ELSE {parsed.semVer :
             parsed \in {p \in {GetSemanticVersion(GetTagName(
                                     [kind |-> GetVendor([Repo |-> repo]),
                                      Ref |-> client[repo].Body.refs[k]])) :
                                 k \in 1..Len(client[repo].Body.refs)} : p.ok}}

\* C30: Update never lowers or sideways-rewrites a pinned revision: for
\* every entry whose revision differs after a step of the run, the new
\* revision holds a version strictly greater than the one pinned before in
\* (major, minor, patch) order, its bump is within the ceiling, and it is
\* the maximum of the parsable tags of the repository
C30_RewriteOnlyRaises ==
    [][/\ SameEntries
       /\ \A k \in 1..Len(files.config.repos) :
              LET old == files.config.repos[k]
                  new == files'.config.repos[k]
                  pinned == GetSemanticVersion(old.rev)
                  written == GetSemanticVersion(new.rev)
              IN  new.rev # old.rev
                      => /\ pinned.ok /\ written.ok
                         /\ LexGreater(Triple(written.semVer), Triple(pinned.semVer))
                         /\ BumpRank(Triple(written.semVer), Triple(pinned.semVer))
                                <= CeilingRank(cfg.Allow)
                         /\ \E tag \in ParsedTagsOf(old.repo) :
                                Triple(tag) = Triple(written.semVer)
                         /\ \A tag \in ParsedTagsOf(old.repo) :
                                ~LexGreater(Triple(tag), Triple(written.semVer))]_vars

====
